---- MODULE Spec2Model ----
(***************************************************************************)
(* NanoboyAdvance APU: the noise channel (NoiseChannel) driven by the      *)
(* event scheduler, its register interface, and the sequencer it owns; the *)
(* APU mixer (Reset, LatchFIFO, Tick) and the host audio callback.         *)
(***************************************************************************)
EXTENDS Integers, Sequences, FiniteSets, TLC

VARIABLES
  \* NoiseChannel fields
  frequency_shift, frequency_ratio, width, length_enable, dac_enable, enabled,
  lfsr, sample, skip_count,
  \* sequencer.length and sequencer.envelope.*
  length, divider, direction, initial_volume, current_volume, active,
  \* bias.resolution (the BIAS collaborator)
  resolution,
  \* the scheduler: remaining cycles of every pending event_cb event, in insertion order
  pending,
  \* the last operation performed, with its inputs and what Generate saw on entry
  op,
  \* the number of operations performed so far
  steps,
  \* APU: latch[id], mmio.fifo[id] (oldest byte first), the occasions requested from the
  \* DMA and not served yet, and the samples of psg1, psg2, psg3
  latch, fifo, dma, psg,
  \* APU: resolution_old, event.countdown
  resolution_old, countdown,
  \* the resampler: the resolution its input rate was set for, and the input frames
  \* taken since its last output frame
  resampler_rate, resampler_phase,
  \* the ring buffer: its slots, its read cursor and the number of frames available
  ring, ring_rd, ring_count,
  \* how many of the available frames were written before the latest APU::Reset
  ring_old,
  \* the audio device: whether AudioCallback is installed; where APU::Reset stands
  callback_installed, reset_pc,
  \* the last APU operation performed, with its inputs and what it did
  aop

chanVars == <<frequency_shift, frequency_ratio, width, length_enable, dac_enable,
              enabled, lfsr, sample, skip_count>>
seqVars == <<length, divider, direction, initial_volume, current_volume, active>>
apuVars == <<latch, fifo, dma, psg, resolution_old, countdown, resampler_rate,
             resampler_phase, ring, ring_rd, ring_count, ring_old, callback_installed,
             reset_pc, aop>>
vars == <<chanVars, seqVars, resolution, pending, op, steps, apuVars>>

----------------------------------------------------------------------------
\* Bounds of the model.
MaxSteps == 5
MaxLate == 1
MaxPending == 2
\* APU operations in a behaviour, slots of the ring buffer, and frames the host asks for.
MaxApuSteps == 3
MaxRing == 4
MaxFrames == 2
\* Operations that follow a trigger of the noise channel.
MaxLfsrSteps == 4

----------------------------------------------------------------------------
\* Machine arithmetic on non-negative integers.
\* a ^ b, bit by bit from the low end (four bits at once where b has none set there).
RECURSIVE BitXor(_, _)
BitXor(a, b) ==
  IF a = 0 THEN b
  ELSE IF b = 0 THEN a
  ELSE IF b % 16 = 0 THEN (a % 16) + (16 * BitXor(a \div 16, b \div 16))
  ELSE (((a % 2) + (b % 2)) % 2) + (2 * BitXor(a \div 2, b \div 2))

RECURSIVE BitOr(_, _)
BitOr(a, b) ==
  IF a = 0 THEN b
  ELSE IF b = 0 THEN a
  ELSE (IF (a % 2) + (b % 2) > 0 THEN 1 ELSE 0) + (2 * BitOr(a \div 2, b \div 2))

RECURSIVE BitAnd(_, _)
BitAnd(a, b) ==
  IF a = 0 \/ b = 0 THEN 0
  ELSE ((a % 2) * (b % 2)) + (2 * BitAnd(a \div 2, b \div 2))

RECURSIVE Pow2(_)
Pow2(n) == IF n = 0 THEN 1 ELSE 2 * Pow2(n - 1)

Shl(a, n) == a * Pow2(n)
Shr(a, n) == a \div Pow2(n)

U8(x) == x % 256
U16(x) == x % 65536

Byte == 0 .. 255

----------------------------------------------------------------------------
\* Envelope::Direction
Decrement == 0
Increment == 1

\* The sequencer's default (maximum) length of the noise channel.
LengthDefault == 64

\* GetSynthesisInterval(ratio, shift): divisor_table[ratio] << shift.
DivisorTable == <<8, 16, 32, 48, 64, 80, 96, 112>>

GetSynthesisInterval(ratio, shift) == Shl(DivisorTable[ratio + 1], shift)

\* bias.GetSampleInterval(): the mixer's tick period, 512 >> resolution.
GetSampleInterval(res) == Shr(512, res)

----------------------------------------------------------------------------
\* NoiseChannel::Generate, piece by piece.

\* lfsr_xor[width]
LfsrXor(w) == IF w = 0 THEN 24576 ELSE 96

\* carry = lfsr & 1; lfsr >>= 1; if (carry) lfsr ^= lfsr_xor[width];
\* (variant: the shift without the feedback)
LfsrStepNoFeedback(l, w) == Shr(l, 1)
LfsrStep(l, w) ==
  LET carry == BitAnd(l, 1)
      s == Shr(l, 1)
  IN IF carry # 0 THEN U16(BitXor(s, LfsrXor(w))) ELSE s

\* for (i = 0; i < skip_count; i++) { step }
\* (the test of l makes TLC compute each iteration's value before the next one starts)
RECURSIVE SkipLoop(_, _, _, _)
SkipLoop(l, w, i, n) ==
  IF l >= 0 /\ i < n THEN SkipLoop(LfsrStep(l, w), w, i + 1, n) ELSE l

\* (variant: the loop starting at i = 1)
SkipSamplesOffByOne(l, w, n) == SkipLoop(l, w, 1, n)
SkipSamples(l, w, n) == SkipLoop(l, w, 0, n)

\* sample = carry ? +8 : -8; sample *= current_volume; if (!dac_enable) sample = 0;
\* (variant: without the dac_enable gate)
GenerateSampleNoDacGate(l, cv, dac) ==
  (IF BitAnd(l, 1) # 0 THEN 8 ELSE -8) * cv
GenerateSample(l, cv, dac) ==
  LET carry == BitAnd(l, 1)
      s0 == IF carry # 0 THEN 8 ELSE -8
      s1 == s0 * cv
  IN IF ~dac THEN 0 ELSE s1

\* if (length_enable && sequencer.length <= 0)
LengthExpired == length_enable /\ length <= 0

\* The expiry path's re-arm: scheduler.Add(GetSynthesisInterval(7, 15) - cycles_late)
\* (variants: no re-arm; a re-arm that ignores cycles_late)
ExpiredAddsNone(cycles_late) == << >>
ExpiredAddsNoLate(cycles_late) == << GetSynthesisInterval(7, 15) >>
ExpiredAdds(cycles_late) == << GetSynthesisInterval(7, 15) - cycles_late >>

\* if (noise_interval < mixer_interval) skip_count = mixer_interval/noise_interval - 1
\* (variant: without the - 1)
NextSkipCountNoMinusOne(noise_interval, mixer_interval) ==
  IF noise_interval < mixer_interval THEN mixer_interval \div noise_interval ELSE 0
NextSkipCount(noise_interval, mixer_interval) ==
  IF noise_interval < mixer_interval
  THEN (mixer_interval \div noise_interval) - 1
  ELSE 0

\* ... noise_interval = mixer_interval; scheduler.Add(noise_interval - cycles_late)
NormalAdds(noise_interval, mixer_interval, cycles_late) ==
  LET interval == IF noise_interval < mixer_interval THEN mixer_interval
                  ELSE noise_interval
  IN << interval - cycles_late >>

----------------------------------------------------------------------------
\* The sequencer (length and envelope units).

\* Sequencer::Restart(): reload a zero length.
RestartLength(len) == IF len = 0 THEN LengthDefault ELSE len

\* Envelope stepping, one envelope period: move current_volume by one, clamped.
EnvelopeStepVolume(cv, dir) ==
  IF dir = Increment THEN (IF cv < 15 THEN cv + 1 ELSE cv)
  ELSE (IF cv > 0 THEN cv - 1 ELSE cv)

EnvelopeStepActive(cv, dir) ==
  IF dir = Increment THEN cv < 15 ELSE cv > 0

----------------------------------------------------------------------------
\* The register interface.

\* lfsr_init[width]
LfsrInit(w) == IF w = 0 THEN 16384 ELSE 64

\* if (dac_enable) enabled = true;
\* (variant: enabled set whatever dac_enable is)
TriggerEnabledAlways(dac, en) == TRUE
TriggerEnabled(dac, en) == IF dac THEN TRUE ELSE en

\* if (!dac_enable) enabled = false;
\* (variant: enabled kept when the DAC goes off)
DacOffEnabledKept(dac, en) == en
DacOffEnabled(dac, en) == IF ~dac THEN FALSE ELSE en

\* The envelope "zombie" mode of Write(1, value); & 15 of a possibly negative int is
\* its residue modulo 16.
\* (variant: without the correction for a changed direction)
ZombieVolumeNoFlip(cv, divider_old, direction_old, direction_new, act) ==
  LET v1 == IF divider_old = 0 /\ act THEN cv + 1
            ELSE IF direction_old = Decrement THEN cv + 2
            ELSE cv
  IN v1 % 16
ZombieVolume(cv, divider_old, direction_old, direction_new, act) ==
  LET v1 == IF divider_old = 0 /\ act THEN cv + 1
            ELSE IF direction_old = Decrement THEN cv + 2
            ELSE cv
      v2 == IF direction_old # direction_new THEN 16 - v1 ELSE v1
  IN v2 % 16

\* The fields Write(1, value) decodes.
EnvDivider(value) == BitAnd(value, 7)
EnvDirection(value) == BitAnd(Shr(value, 3), 1)
EnvInitialVolume(value) == Shr(value, 4)
DacEnable(value) == Shr(value, 3) # 0

\* The fields Write(4, value) decodes.
FreqRatio(value) == BitAnd(value, 7)
FreqWidth(value) == BitAnd(Shr(value, 3), 1)
FreqShift(value) == Shr(value, 4)

\* sequencer.length = 64 - (value & 63)
\* (variant: without the & 63)
WriteLengthNoMask(value) == 64 - value
WriteLength(value) == 64 - BitAnd(value, 63)

\* NoiseChannel::Read(offset)
\* (variant: current_volume in place of initial_volume)
ReadEnvelopeLeaky ==
  U8(BitOr(BitOr(divider, Shl(direction, 3)), Shl(current_volume, 4)))
ReadEnvelope ==
  U8(BitOr(BitOr(divider, Shl(direction, 3)), Shl(initial_volume, 4)))

ReadFrequency ==
  U8(BitOr(BitOr(frequency_ratio, Shl(width, 3)), Shl(frequency_shift, 4)))

Read(offset) ==
  CASE offset = 0 -> 0
    [] offset = 1 -> ReadEnvelope
    [] offset = 2 -> 0
    [] offset = 3 -> 0
    [] offset = 4 -> ReadFrequency
    [] offset = 5 -> (IF length_enable THEN 64 ELSE 0)
    [] OTHER -> 0

\* What an operation found on entry.
Entry ==
  [lfsr |-> lfsr, skip_count |-> skip_count, width |-> width, enabled |-> enabled,
   dac_enable |-> dac_enable, current_volume |-> current_volume, divider |-> divider,
   direction |-> direction, active |-> active, length |-> length]

\* The record of an operation: its name, its inputs, the delays it passed to
\* scheduler.Add, and whether Generate took its length-expiry path.
MkOp(name, offset, value, late, adds, expired) ==
  [name |-> name, offset |-> offset, value |-> value, late |-> late,
   adds |-> adds, expired |-> expired, entry |-> Entry]

PlainOp(name, offset, value, adds) == MkOp(name, offset, value, 0, adds, FALSE)

\* NoiseChannel::Write(offset, value): what it does to the channel and the sequencer.
WriteReg(offset, value) ==
  \/ /\ offset = 0
     /\ length' = WriteLength(value)
     /\ UNCHANGED <<chanVars, divider, direction, initial_volume, current_volume, active>>
  \/ /\ offset = 1
     /\ divider' = EnvDivider(value)
     /\ direction' = EnvDirection(value)
     /\ initial_volume' = EnvInitialVolume(value)
     /\ dac_enable' = DacEnable(value)
     /\ enabled' = DacOffEnabled(DacEnable(value), enabled)
     /\ current_volume' =
          ZombieVolume(current_volume, divider, direction, EnvDirection(value), active)
     /\ UNCHANGED <<frequency_shift, frequency_ratio, width, length_enable, lfsr,
                    sample, skip_count, length, active>>
  \/ /\ offset = 4
     /\ frequency_ratio' = FreqRatio(value)
     /\ width' = FreqWidth(value)
     /\ frequency_shift' = FreqShift(value)
     /\ UNCHANGED <<length_enable, dac_enable, enabled, lfsr, sample, skip_count, seqVars>>
  \/ /\ offset = 5
     /\ length_enable' = (BitAnd(value, 64) # 0)
     /\ IF BitAnd(value, 128) # 0
        THEN /\ enabled' = TriggerEnabled(dac_enable, enabled)
             /\ length' = RestartLength(length)
             /\ current_volume' = initial_volume
             /\ active' = TRUE
             /\ lfsr' = LfsrInit(width)
        ELSE UNCHANGED <<enabled, length, current_volume, active, lfsr>>
     /\ UNCHANGED <<frequency_shift, frequency_ratio, width, dac_enable, sample,
                    skip_count, divider, direction, initial_volume>>
  \/ /\ offset \notin {0, 1, 4, 5}
     /\ UNCHANGED <<chanVars, seqVars>>

----------------------------------------------------------------------------
\* The scheduler.

\* The event that is due first: the least remaining cycles, the earliest added among equals.
DueIndex ==
  CHOOSE i \in 1 .. Len(pending) :
    /\ \A j \in 1 .. Len(pending) : pending[i] <= pending[j]
    /\ \A j \in 1 .. (i - 1) : pending[j] > pending[i]

\* The events left when event i fires after `elapsed` cycles.
Remaining(i, elapsed) ==
  LET rest == SubSeq(pending, 1, i - 1) \o SubSeq(pending, i + 1, Len(pending))
  IN [j \in 1 .. Len(rest) |-> rest[j] - elapsed]

----------------------------------------------------------------------------
\* The APU: FIFO latches and the DMA refill request.

\* (id == 0) ? DMA::Occasion::FIFO0 : DMA::Occasion::FIFO1
Occasion(id) == IF id = 0 THEN "FIFO0" ELSE "FIFO1"

\* if (fifo.Count() <= 16)
\* (variant: a strict comparison)
RefillNeededStrict(count) == count < 16
RefillNeeded(count) == count <= 16

\* fifo.Read(): the oldest byte, which leaves the FIFO; an empty FIFO gives the byte
\* `stale` its storage still holds and stays empty.
FifoHead(q, stale) == IF Len(q) > 0 THEN Head(q) ELSE stale
FifoRest(q) == IF Len(q) > 0 THEN Tail(q) ELSE q

\* One repetition of LatchFIFO's loop: latch[id] = fifo.Read(); request if Count() <= 16.
LatchStep(acc, id, stale) ==
  LET value == FifoHead(acc.q, stale)
      rest == FifoRest(acc.q)
  IN [q |-> rest,
      latch |-> value,
      reads |-> Append(acc.reads, value),
      requests |-> IF RefillNeeded(Len(rest)) THEN Append(acc.requests, Occasion(id))
                   ELSE acc.requests]

\* for (time = 0; time < times; time++) { step }
RECURSIVE LatchLoop(_, _, _, _, _)
LatchLoop(acc, id, time, times, stale) ==
  IF Len(acc.reads) >= 0 /\ time < times
  THEN LatchLoop(LatchStep(acc, id, stale), id, time + 1, times, stale)
  ELSE acc

\* The bytes one DMA transfer writes to a FIFO: four words, counted up from `base`.
DmaBurst == 16
BurstBytes(base) == [i \in 1 .. DmaBurst |-> base + i - 1]

----------------------------------------------------------------------------
\* The APU: the mixer tick. A frame is a pair <<left, right>> in units of 1/512.

\* psg1.sample + psg2.sample + psg3.sample
MixedSum(s) == s[1] + s[2] + s[3]

\* { latch[0]/256.0f + (...)/512.0f, latch[1]/256.0f + (...)/512.0f }
TickFrame(l, s) == << (2 * l[0]) + MixedSum(s), (2 * l[1]) + MixedSum(s) >>

\* if (mmio.bias.resolution != resolution_old)
\* (variant: the resolution compared with the one Reset leaves, not the one remembered)
TickReconfiguresNonZero(res, old) == res # 0
TickReconfigures(res, old) == res # old

\* The resampler takes 2^rate input frames (32768 << rate per second) for each frame it
\* pushes to the ring buffer (32768 per second).
ResamplerRatio(rate) == Pow2(rate)

----------------------------------------------------------------------------
\* The ring buffer and the host callback.

\* The slot `y` frames past the read cursor.
RingSlot(y) == ((ring_rd + y) % MaxRing) + 1
Peek(y) == ring[RingSlot(y)]

\* The frames available, oldest first.
AvailableFrames == [x \in 1 .. ring_count |-> Peek(x - 1)]

\* std::int16_t(std::round(sample * 32767.0)): to the nearest, halves away from zero.
ToInt16(v) ==
  IF v >= 0 THEN ((2 * v * 32767) + 512) \div 1024
  ELSE 0 - (((2 * (0 - v) * 32767) + 512) \div 1024)

ConvertFrame(f) == << ToInt16(f[1]), ToInt16(f[2]) >>

\* if (available >= 2*samples)
CallbackDrains(available, samples) == available >= 2 * samples

\* The offsets the underrun loop peeks at: y = 0; ... Peek(y); if (++y == available) y = 0;
RECURSIVE PeekOffsets(_, _, _, _)
PeekOffsets(x, y, samples, available) ==
  IF x < samples
  THEN << y >> \o PeekOffsets(x + 1, IF y + 1 = available THEN 0 ELSE y + 1,
                              samples, available)
  ELSE << >>

\* The record of an APU operation, every field at its default.
NoAop ==
  [name |-> "None", id |-> 0, times |-> 0, reads |-> << >>, requests |-> << >>,
   n |-> 0, available |-> 0, frames |-> << >>, consumed |-> 0, offsets |-> << >>,
   out |-> << >>, stale |-> FALSE, half |-> FALSE, frame |-> << 0, 0 >>,
   reconfigured |-> FALSE, pushed |-> FALSE]

\* The APU after APU::APU and a complete APU::Reset(), nothing latched or mixed yet.
ApuAfterReset ==
  /\ latch = [i \in 0 .. 1 |-> 0]
  /\ fifo = [i \in 0 .. 1 |-> << >>]
  /\ dma = {}
  /\ psg = << 0, 0, 0 >>
  /\ resolution_old = 0
  /\ countdown = GetSampleInterval(0)
  /\ resampler_rate = 0 /\ resampler_phase = 0
  /\ ring = [i \in 1 .. MaxRing |-> << 0, 0 >>]
  /\ ring_rd = 0 /\ ring_count = 0 /\ ring_old = 0
  /\ callback_installed = TRUE
  /\ reset_pc = "idle"
  /\ aop = NoAop

----------------------------------------------------------------------------
\* The operations.

\* The values the registers are written with: a few per offset, or every byte.
WriteValues ==
  (0 :> {63}) @@ (1 :> {0, 8, 163}) @@ (2 :> {255}) @@
  (4 :> {8, 20, 247}) @@ (5 :> {0, 64, 128, 192})

AllBytes == [offset \in 0 .. 5 |-> Byte]

\* NoiseChannel::NoiseChannel: sweep off, envelope on, Reset().
Init ==
  /\ frequency_shift = 0 /\ frequency_ratio = 0 /\ width = 0
  /\ length_enable = FALSE /\ dac_enable = FALSE /\ enabled = FALSE
  /\ lfsr = 0 /\ sample = 0 /\ skip_count = 0
  /\ length = 0 /\ divider = 0 /\ direction = Decrement
  /\ initial_volume = 0 /\ current_volume = 0 /\ active = FALSE
  /\ resolution = 0
  /\ pending = << GetSynthesisInterval(7, 15) >>
  /\ op = PlainOp("Construct", 0, 0, << GetSynthesisInterval(7, 15) >>)
  /\ steps = 0
  /\ ApuAfterReset

\* NoiseChannel::Reset()
ResetAdds == << GetSynthesisInterval(7, 15) >>

Reset ==
  /\ steps < MaxSteps
  /\ Len(pending) < MaxPending
  /\ frequency_shift' = 0 /\ frequency_ratio' = 0 /\ width' = 0
  /\ length_enable' = FALSE /\ dac_enable' = FALSE /\ enabled' = FALSE
  /\ lfsr' = 0 /\ sample' = 0 /\ skip_count' = 0
  /\ length' = 0 /\ divider' = 0 /\ direction' = Decrement
  /\ initial_volume' = 0 /\ current_volume' = 0 /\ active' = FALSE
  /\ pending' = pending \o ResetAdds
  /\ op' = PlainOp("Reset", 0, 0, ResetAdds)
  /\ steps' = steps + 1
  /\ UNCHANGED <<resolution, apuVars>>

\* The scheduler fires the due event: NoiseChannel::Generate(cycles_late). An event
\* that is not overdue fires up to MaxLate cycles late.
Generate ==
  /\ steps < MaxSteps
  /\ pending # << >>
  /\ IF LengthExpired
     THEN /\ enabled' = FALSE
          /\ sample' = 0
          /\ UNCHANGED <<lfsr, skip_count>>
     ELSE /\ sample' = GenerateSample(lfsr, current_volume, dac_enable)
          /\ lfsr' = SkipSamples(LfsrStep(lfsr, width), width, skip_count)
          /\ skip_count' = NextSkipCount(GetSynthesisInterval(frequency_ratio, frequency_shift),
                                         GetSampleInterval(resolution))
          /\ UNCHANGED enabled
  /\ \E late \in 0 .. MaxLate :
       LET i == DueIndex
           rem == pending[i]
           cycles_late == IF rem < 0 THEN 0 - rem ELSE late
           elapsed == IF rem < 0 THEN 0 ELSE rem + late
           noise_interval == GetSynthesisInterval(frequency_ratio, frequency_shift)
           mixer_interval == GetSampleInterval(resolution)
           adds == IF LengthExpired THEN ExpiredAdds(cycles_late)
                   ELSE NormalAdds(noise_interval, mixer_interval, cycles_late)
       IN /\ (rem < 0 => late = 0)
          /\ pending' = Remaining(i, elapsed) \o adds
          /\ op' = MkOp("Generate", 0, 0, cycles_late, adds, LengthExpired)
  /\ steps' = steps + 1
  /\ UNCHANGED <<frequency_shift, frequency_ratio, width, length_enable, dac_enable,
                 seqVars, resolution, apuVars>>

\* A register write from the bus, its offset and value taken from `values`.
Write(values) ==
  /\ steps < MaxSteps
  /\ \E offset \in DOMAIN values : \E value \in values[offset] :
       /\ WriteReg(offset, value)
       /\ op' = PlainOp("Write", offset, value, << >>)
  /\ steps' = steps + 1
  /\ UNCHANGED <<resolution, pending, apuVars>>

\* The external length tick of the sequencer.
LengthTick ==
  /\ steps < MaxSteps
  /\ length > 0
  /\ length' = length - 1
  /\ op' = PlainOp("LengthTick", 0, 0, << >>)
  /\ steps' = steps + 1
  /\ UNCHANGED <<chanVars, divider, direction, initial_volume, current_volume, active,
                 resolution, pending, apuVars>>

\* The external envelope tick of the sequencer, once the divider's period has passed.
EnvelopeTick ==
  /\ steps < MaxSteps
  /\ active /\ divider # 0
  /\ current_volume' = EnvelopeStepVolume(current_volume, direction)
  /\ active' = EnvelopeStepActive(current_volume, direction)
  /\ op' = PlainOp("EnvelopeTick", 0, 0, << >>)
  /\ steps' = steps + 1
  /\ UNCHANGED <<chanVars, length, divider, direction, initial_volume, resolution, pending,
                 apuVars>>

\* The resolutions the bias register is written with: the two ends, or all four.
ResolutionValues == {0, 3}

AllResolutions == 0 .. 3

\* A write to the bias register's resolution field, its value taken from `values`.
BiasWrite(values) ==
  /\ steps < MaxSteps
  /\ \E res \in values :
       /\ res # resolution
       /\ resolution' = res
       /\ op' = PlainOp("BiasWrite", 0, res, << >>)
  /\ steps' = steps + 1
  /\ UNCHANGED <<chanVars, seqVars, pending, apuVars>>

Next ==
  \/ Reset
  \/ Generate
  \/ Write(WriteValues)
  \/ LengthTick
  \/ EnvelopeTick
  \/ BiasWrite(ResolutionValues)

Spec == Init /\ [][Next]_vars

----------------------------------------------------------------------------
\* One operation, with any byte written to any of the offsets 0-5, from the states
\* the channel can be in: InitReg draws the state, and leaves room for one operation.

\* States that differ in the envelope unit.
InitEnvelope ==
  /\ current_volume \in 0 .. 15
  /\ divider \in {0, 3}
  /\ direction \in {Decrement, Increment}
  /\ initial_volume \in {0, 15}
  /\ active \in BOOLEAN
  /\ width = 0 /\ length = 0 /\ length_enable = FALSE
  /\ lfsr = 16384 /\ skip_count = 63

\* States that differ in the length unit, the LFSR and the control flags.
InitControl ==
  /\ current_volume = 9 /\ divider = 0 /\ direction = Decrement
  /\ initial_volume \in {0, 15}
  /\ active = FALSE
  /\ width \in {0, 1}
  /\ length \in {0, 1, 64}
  /\ length_enable \in BOOLEAN
  /\ lfsr \in {1, 16384}
  /\ skip_count \in {0, 3}

InitReg ==
  /\ InitEnvelope \/ InitControl
  /\ dac_enable = (direction # 0 \/ initial_volume # 0)
  /\ enabled \in {FALSE, dac_enable}
  /\ frequency_shift = 0 /\ frequency_ratio = 0
  /\ sample = 0
  /\ resolution = 0
  /\ pending = << GetSampleInterval(0) >>
  /\ op = PlainOp("Start", 0, 0, << >>)
  /\ steps = MaxSteps - 1
  /\ ApuAfterReset

NextReg ==
  \/ Reset
  \/ Generate
  \/ Write(AllBytes)
  \/ LengthTick
  \/ EnvelopeTick
  \/ BiasWrite(AllResolutions)

SpecReg == InitReg /\ [][NextReg]_vars

----------------------------------------------------------------------------
\* The APU's operations. The emulation thread runs Reset, LatchFIFO, Tick, the DMA and
\* the bias write one after the other; the host thread runs AudioCallback whenever the
\* audio device has it installed, also between two statements of Reset.

noiseVars == <<chanVars, seqVars, pending, op>>

\* The values LatchFIFO is called with, the byte an empty FIFO's storage may hold, and
\* the first byte of a DMA transfer.
LatchTimes == {1, 2}
StaleBytes == {0, 127}
BurstBases == {-128, 100}

\* APU::Reset(), from its first statement to audio_dev->Close().
ApuResetClose ==
  /\ steps < MaxSteps
  /\ reset_pc = "idle"
  /\ fifo' = [i \in 0 .. 1 |-> << >>]
  /\ resolution' = 0
  /\ resolution_old' = 0
  /\ countdown' = GetSampleInterval(0)
  /\ psg' = << 0, 0, 0 >>
  /\ callback_installed' = FALSE
  /\ ring_old' = ring_count
  /\ reset_pc' = "closed"
  /\ aop' = [NoAop EXCEPT !.name = "ResetClose"]
  /\ steps' = steps + 1
  /\ UNCHANGED <<noiseVars, latch, dma, resampler_rate, resampler_phase, ring, ring_rd,
                 ring_count>>

\* APU::Reset(): audio_dev->Open(this, AudioCallback).
ApuResetOpen ==
  /\ reset_pc = "closed"
  /\ callback_installed' = TRUE
  /\ reset_pc' = "opened"
  /\ aop' = [NoAop EXCEPT !.name = "ResetOpen"]
  /\ UNCHANGED <<noiseVars, resolution, steps, latch, fifo, dma, psg, resolution_old,
                 countdown, resampler_rate, resampler_phase, ring, ring_rd, ring_count,
                 ring_old>>

\* APU::Reset(): resampler->SetSampleRates(32768 << mmio.bias.resolution, ...).
ApuResetRates ==
  /\ reset_pc = "opened"
  /\ resampler_rate' = resolution
  /\ reset_pc' = "idle"
  /\ aop' = [NoAop EXCEPT !.name = "ResetRates"]
  /\ UNCHANGED <<noiseVars, resolution, steps, latch, fifo, dma, psg, resolution_old,
                 countdown, resampler_phase, ring, ring_rd, ring_count, ring_old,
                 callback_installed>>

\* APU::LatchFIFO(id, times)
LatchFIFO ==
  /\ steps < MaxSteps
  /\ reset_pc = "idle"
  /\ \E id \in 0 .. 1 : \E times \in LatchTimes : \E stale \in StaleBytes :
       LET start == [q |-> fifo[id], latch |-> latch[id], reads |-> << >>,
                     requests |-> << >>]
           acc == LatchLoop(start, id, 0, times, stale)
       IN /\ fifo' = [fifo EXCEPT ![id] = acc.q]
          /\ latch' = [latch EXCEPT ![id] = acc.latch]
          /\ dma' = dma \cup {acc.requests[i] : i \in 1 .. Len(acc.requests)}
          /\ aop' = [NoAop EXCEPT !.name = "LatchFIFO", !.id = id, !.times = times,
                                  !.reads = acc.reads, !.requests = acc.requests]
  /\ steps' = steps + 1
  /\ UNCHANGED <<noiseVars, resolution, psg, resolution_old, countdown, resampler_rate,
                 resampler_phase, ring, ring_rd, ring_count, ring_old, callback_installed,
                 reset_pc>>

\* The DMA serves a refill request: one transfer into the FIFO of that occasion.
DmaRefill ==
  /\ steps < MaxSteps
  /\ reset_pc = "idle"
  /\ \E id \in 0 .. 1 : \E base \in BurstBases :
       /\ Occasion(id) \in dma
       /\ fifo' = [fifo EXCEPT ![id] = fifo[id] \o BurstBytes(base)]
       /\ dma' = dma \ {Occasion(id)}
       /\ aop' = [NoAop EXCEPT !.name = "DmaRefill", !.id = id]
  /\ steps' = steps + 1
  /\ UNCHANGED <<noiseVars, resolution, latch, psg, resolution_old, countdown,
                 resampler_rate, resampler_phase, ring, ring_rd, ring_count, ring_old,
                 callback_installed, reset_pc>>

\* APU::Tick()
Tick ==
  /\ steps < MaxSteps
  /\ reset_pc = "idle"
  /\ LET reconfigure == TickReconfigures(resolution, resolution_old)
         rate == IF reconfigure THEN resolution ELSE resampler_rate
         frame == TickFrame(latch, psg)
         full == resampler_phase + 1 >= ResamplerRatio(rate)
         push == full /\ ring_count < MaxRing
     IN /\ resampler_rate' = rate
        /\ resolution_old' = (IF reconfigure THEN resolution ELSE resolution_old)
        /\ resampler_phase' = (IF full THEN 0 ELSE resampler_phase + 1)
        /\ ring' = (IF push THEN [ring EXCEPT ![RingSlot(ring_count)] = frame] ELSE ring)
        /\ ring_count' = (IF push THEN ring_count + 1 ELSE ring_count)
        /\ aop' = [NoAop EXCEPT !.name = "Tick", !.frame = frame,
                                !.reconfigured = reconfigure, !.pushed = push]
  /\ countdown' = countdown + GetSampleInterval(resolution)
  /\ steps' = steps + 1
  /\ UNCHANGED <<noiseVars, resolution, latch, fifo, dma, psg, ring_rd, ring_old,
                 callback_installed, reset_pc>>

\* AudioCallback(apu, stream, byte_len), samples = byte_len/sizeof(int16_t)/2.
AudioCallback ==
  /\ steps < MaxSteps
  /\ callback_installed
  /\ \E samples \in 1 .. MaxFrames :
       LET available == ring_count
           base == [NoAop EXCEPT !.name = "AudioCallback", !.n = samples,
                                 !.available = available, !.frames = AvailableFrames,
                                 !.stale = (ring_old > 0), !.half = (reset_pc # "idle")]
       IN IF CallbackDrains(available, samples)
          THEN /\ ring_rd' = (ring_rd + samples) % MaxRing
               /\ ring_count' = ring_count - samples
               /\ ring_old' = (IF ring_old > samples THEN ring_old - samples ELSE 0)
               /\ aop' = [base EXCEPT !.consumed = samples,
                            !.out = [x \in 1 .. samples |-> ConvertFrame(Peek(x - 1))]]
          ELSE LET offsets == PeekOffsets(0, 0, samples, available)
               IN /\ aop' = [base EXCEPT !.offsets = offsets,
                               !.out = [x \in 1 .. samples |->
                                          ConvertFrame(Peek(offsets[x]))]]
                  /\ UNCHANGED <<ring_rd, ring_count, ring_old>>
  /\ steps' = steps + 1
  /\ UNCHANGED <<noiseVars, resolution, latch, fifo, dma, psg, resolution_old, countdown,
                 resampler_rate, resampler_phase, ring, callback_installed, reset_pc>>

\* A write to the bias register's resolution field, between two APU operations.
ApuBiasWrite ==
  /\ steps < MaxSteps
  /\ reset_pc = "idle"
  /\ \E res \in AllResolutions :
       /\ res # resolution
       /\ resolution' = res
       /\ aop' = [NoAop EXCEPT !.name = "BiasWrite", !.id = res]
  /\ steps' = steps + 1
  /\ UNCHANGED <<noiseVars, latch, fifo, dma, psg, resolution_old, countdown,
                 resampler_rate, resampler_phase, ring, ring_rd, ring_count, ring_old,
                 callback_installed, reset_pc>>

NextApu ==
  \/ ApuResetClose
  \/ ApuResetOpen
  \/ ApuResetRates
  \/ LatchFIFO
  \/ DmaRefill
  \/ Tick
  \/ AudioCallback
  \/ ApuBiasWrite

----------------------------------------------------------------------------
\* The APU from the states it can be in, with room for MaxApuSteps operations.

\* The noise channel as constructed.
NoiseConstructed ==
  /\ frequency_shift = 0 /\ frequency_ratio = 0 /\ width = 0
  /\ length_enable = FALSE /\ dac_enable = FALSE /\ enabled = FALSE
  /\ lfsr = 0 /\ sample = 0 /\ skip_count = 0
  /\ length = 0 /\ divider = 0 /\ direction = Decrement
  /\ initial_volume = 0 /\ current_volume = 0 /\ active = FALSE
  /\ pending = << GetSynthesisInterval(7, 15) >>
  /\ op = PlainOp("Construct", 0, 0, << GetSynthesisInterval(7, 15) >>)

\* The noise channel after Write(1, 0x58), Write(4, 0x60), Write(5, 0x80) and fifteen
\* firings of Generate: the fifteenth shifts the 1 out of lfsr and leaves sample = +40.
NoiseSounding ==
  /\ frequency_shift = 6 /\ frequency_ratio = 0 /\ width = 0
  /\ length_enable = FALSE /\ dac_enable = TRUE /\ enabled = TRUE
  /\ lfsr = 24576 /\ sample = 40 /\ skip_count = 0
  /\ length = LengthDefault /\ divider = 0 /\ direction = Increment
  /\ initial_volume = 5 /\ current_volume = 5 /\ active = TRUE
  /\ pending = << GetSynthesisInterval(0, 6) >>
  /\ op = PlainOp("Start", 0, 0, << >>)

\* The bytes a FIFO of `count` bytes holds, and the frame slot i of the ring buffer holds.
FifoPattern(count) == [i \in 1 .. count |-> i - 10]
RingPattern == [i \in 1 .. MaxRing |-> << (24 * i) - 40, 40 - (16 * i) >>]

\* A request is pending for a FIFO that was popped down to 16 bytes or fewer.
PendingFor(count0, count1) ==
  (IF count0 \in 1 .. 16 THEN {Occasion(0)} ELSE {}) \cup
  (IF count1 \in 1 .. 16 THEN {Occasion(1)} ELSE {})

\* States that differ in what Tick mixes.
InitMixer ==
  /\ NoiseConstructed \/ NoiseSounding
  /\ resolution = 0
  /\ latch \in {[i \in 0 .. 1 |-> 0], [i \in 0 .. 1 |-> IF i = 0 THEN -128 ELSE 127]}
  /\ fifo = [i \in 0 .. 1 |-> << >>]
  /\ dma = {}
  /\ psg \in {<< 0, 0, 0 >>, << 40, 0, 0 >>, << -16, 24, 8 >>}
  /\ resolution_old = 0
  /\ countdown = GetSampleInterval(0)
  /\ resampler_rate = 0 /\ resampler_phase = 0
  /\ ring = [i \in 1 .. MaxRing |-> << 0, 0 >>]
  /\ ring_rd = 0 /\ ring_count = 0 /\ ring_old = 0
  /\ callback_installed = TRUE
  /\ reset_pc = "idle"
  /\ aop = NoAop
  /\ steps = MaxSteps - MaxApuSteps

\* States that differ in what the FIFOs hold.
InitFifo ==
  /\ NoiseConstructed
  /\ resolution = 0
  /\ latch = [i \in 0 .. 1 |-> 0]
  /\ \E count0 \in {0, 1, 16, 17, 18} : \E count1 \in {0, 18} :
       /\ fifo = [i \in 0 .. 1 |-> FifoPattern(IF i = 0 THEN count0 ELSE count1)]
       /\ dma = PendingFor(count0, count1)
  /\ psg = << 0, 0, 0 >>
  /\ resolution_old = 0
  /\ countdown = GetSampleInterval(0)
  /\ resampler_rate = 0 /\ resampler_phase = 0
  /\ ring = [i \in 1 .. MaxRing |-> << 0, 0 >>]
  /\ ring_rd = 0 /\ ring_count = 0 /\ ring_old = 0
  /\ callback_installed = TRUE
  /\ reset_pc = "idle"
  /\ aop = NoAop
  /\ steps = MaxSteps - MaxApuSteps

\* States that differ in what the ring buffer holds.
InitCallback ==
  /\ NoiseConstructed
  /\ resolution = 0
  /\ latch = [i \in 0 .. 1 |-> 0]
  /\ fifo = [i \in 0 .. 1 |-> << >>]
  /\ dma = {}
  /\ psg \in {<< 0, 0, 0 >>, << 40, 0, 0 >>}
  /\ resolution_old = 0
  /\ countdown = GetSampleInterval(0)
  /\ resampler_rate = 0 /\ resampler_phase = 0
  /\ ring = RingPattern
  /\ ring_rd \in {0, MaxRing - 1}
  /\ ring_count \in 0 .. MaxRing
  /\ ring_old = 0
  /\ callback_installed = TRUE
  /\ reset_pc = "idle"
  /\ aop = NoAop
  /\ steps = MaxSteps - MaxApuSteps

SpecMixer == InitMixer /\ [][NextApu]_vars

SpecFifo == InitFifo /\ [][NextApu]_vars

SpecCallback == InitCallback /\ [][NextApu]_vars

----------------------------------------------------------------------------
\* The noise channel from a trigger on: firings of Generate and writes that switch the
\* LFSR between its 15-bit and its 7-bit mode.

\* The channel after its first firing and Write(5, 0x80), MaxLfsrSteps operations to go.
InitTriggered ==
  /\ width = 0
  /\ lfsr = LfsrInit(0)
  /\ skip_count = 63
  /\ steps = MaxSteps - MaxLfsrSteps

\* The channel any number of firings after a trigger, in the mode it was triggered in,
\* one operation to go: in 15-bit mode lfsr runs through 1 .. 0x7FFF, in 7-bit mode
\* through 1 .. 0x7F.
InitRunning ==
  /\ width \in {0, 1}
  /\ lfsr \in (IF width = 0 THEN 1 .. 32767 ELSE 1 .. 127)
  /\ skip_count \in {0, 63}
  /\ steps = MaxSteps - 1

InitLfsr ==
  /\ InitTriggered \/ InitRunning
  /\ frequency_shift = 0 /\ frequency_ratio = 0
  /\ length_enable = FALSE /\ dac_enable = FALSE /\ enabled = FALSE
  /\ sample = 0
  /\ length = LengthDefault /\ divider = 0 /\ direction = Decrement
  /\ initial_volume = 0 /\ current_volume = 0 /\ active = TRUE
  /\ resolution = 0
  /\ pending = << GetSampleInterval(0) >>
  /\ op = PlainOp("Start", 0, 0, << >>)
  /\ ApuAfterReset

\* Writes of the width bit alone, and the trigger.
LfsrWrites == (4 :> {0, 8}) @@ (5 :> {128})

NextLfsr ==
  \/ Generate
  \/ Write(LfsrWrites)

SpecLfsr == InitLfsr /\ [][NextLfsr]_vars

----------------------------------------------------------------------------
\* The properties.

Last(seq) == seq[Len(seq)]

\* A firing of Generate that does not take the length-expiry path, as a step.
NormalFiring == op'.name = "Generate" /\ ~(length_enable /\ length <= 0)

\* A firing of Generate that takes the length-expiry path, as a step.
ExpiryFiring == op'.name = "Generate" /\ length_enable /\ length <= 0

\* C1: the noise channel has at most one generation event pending in the scheduler,
\* whatever sequence of construction, Reset(), Write() and firings of Generate() ran.
C1_AtMostOnePending == Len(pending) <= 1

\* C2: every firing of Generate calls scheduler.Add exactly once, on the length-expiry
\* path and on the normal path: the firing consumes one pending event and leaves one
\* pending again, so the chain of generation events never dies.
C2_GenerateRearmsOnce ==
  [][op'.name = "Generate" =>
       /\ Len(op'.adds) = 1
       /\ Len(pending') = Len(pending)
       /\ pending' # << >>]_vars

C2_Witness ==
  /\ op.name = "Generate" /\ op.expired
  /\ ~enabled
  /\ Len(pending) = 1

\* C3: Write(5, v) with bit 7 of v set reseeds lfsr to 0x4000 (width 0) or 0x0040
\* (width 1) and restarts the sequencer whatever dac_enable is, and sets enabled exactly
\* when dac_enable is true (enabled keeps its value otherwise); with bit 7 clear it
\* changes nothing but length_enable.
C3_TriggerWrite ==
  [][(op'.name = "Write" /\ op'.offset = 5) =>
       IF op'.value >= 128
       THEN /\ lfsr' = (IF width = 0 THEN 16384 ELSE 64)
            /\ active' = TRUE
            /\ current_volume' = initial_volume
            /\ length' = (IF length = 0 THEN 64 ELSE length)
            /\ enabled' = (IF dac_enable THEN TRUE ELSE enabled)
       ELSE UNCHANGED <<frequency_shift, frequency_ratio, width, dac_enable, enabled,
                        lfsr, sample, skip_count, seqVars, resolution, pending>>]_vars

C3_Witness ==
  /\ op.name = "Write" /\ op.offset = 5 /\ op.value >= 128
  /\ ~op.entry.dac_enable /\ ~enabled
  /\ width = 1 /\ lfsr = 64 /\ active

C5_SkipCountAndRearm ==
  [][NormalFiring =>
       LET noise_interval == GetSynthesisInterval(frequency_ratio, frequency_shift)
           mixer_interval == GetSampleInterval(resolution)
       IN /\ pending' # << >>
          /\ IF noise_interval < mixer_interval
             THEN /\ skip_count' = (mixer_interval \div noise_interval) - 1
                  /\ Last(pending') = mixer_interval - op'.late
             ELSE /\ skip_count' = 0
                  /\ Last(pending') = noise_interval - op'.late]_vars

C5_Witness ==
  /\ op.name = "Generate" /\ ~op.expired /\ op.late = 1
  /\ frequency_ratio = 4 /\ frequency_shift = 1
  /\ skip_count = 3
  /\ Last(pending) = 511

\* One raw step of the LFSR: carry = bit 0, shift right by one, and XOR with 0x6000
\* (width 0: bits 13 and 14) or 0x0060 (width 1: bits 5 and 6) if the carry was set.
FlipBit(x, k) == IF (x \div Pow2(k)) % 2 = 0 THEN x + Pow2(k) ELSE x - Pow2(k)

RawStep(l, w) ==
  LET shifted == l \div 2
      low == IF w = 0 THEN 13 ELSE 5
  IN IF l % 2 = 1 THEN FlipBit(FlipBit(shifted, low), low + 1) ELSE shifted

RECURSIVE RawSteps(_, _, _)
RawSteps(l, w, n) ==
  IF l >= 0 /\ n > 0 THEN RawSteps(RawStep(l, w), w, n - 1) ELSE l

\* C6: in a firing of Generate off the length-expiry path, lfsr at exit is lfsr at entry
\* advanced by exactly skip_count + 1 raw steps, skip_count being the value held when the
\* firing began, whatever was written to offset 4 between the firings.
C6_LfsrAdvance ==
  [][NormalFiring => lfsr' = RawSteps(lfsr, width, skip_count + 1)]_vars

C6_Witness ==
  /\ op.name = "Generate" /\ ~op.expired
  /\ op.entry.skip_count = 63 /\ op.entry.lfsr = 16384
  /\ width = 1
  /\ lfsr \notin {0, 16384}

\* C7: after a firing of Generate off the length-expiry path, sample is 0 if dac_enable
\* is false, and otherwise +8 * current_volume if bit 0 of lfsr at entry was 1 and
\* -8 * current_volume if it was 0; sample always stays within -120 .. 120.
C7_Sample ==
  [][/\ NormalFiring =>
          sample' = (IF ~dac_enable THEN 0
                     ELSE IF lfsr % 2 = 1 THEN 8 * current_volume
                     ELSE 0 - (8 * current_volume))
     /\ sample' \in -120 .. 120]_vars

C7_Witness ==
  /\ op.name = "Generate" /\ ~op.expired
  /\ op.entry.skip_count = 3 /\ op.entry.lfsr = 1
  /\ dac_enable /\ current_volume = 9
  /\ sample = 72

\* C8: Write(1, v) computes current_volume from the divider and the direction held
\* before the write: plus 1 if the old divider was 0 and the envelope is active, else
\* plus 2 if the old direction was Decrement; then 16 minus that if the direction
\* changed; then modulo 16. From current_volume 5, Decrement, divider 0, active, a write
\* that keeps divider 0 and the direction gives 6.
C8_ZombieMode ==
  [][(op'.name = "Write" /\ op'.offset = 1) =>
       LET bumped == IF divider = 0 /\ active THEN current_volume + 1
                     ELSE IF direction = Decrement THEN current_volume + 2
                     ELSE current_volume
           flipped == IF direction' # direction THEN 16 - bumped ELSE bumped
       IN /\ current_volume' = flipped % 16
          /\ (/\ current_volume = 5 /\ direction = Decrement /\ divider = 0 /\ active
              /\ divider' = 0 /\ direction' = direction) => current_volume' = 6]_vars

C8_Witness ==
  /\ op.name = "Write" /\ op.offset = 1
  /\ op.entry.current_volume = 5 /\ op.entry.direction = Decrement
  /\ op.entry.divider = 0 /\ op.entry.active
  /\ divider = 0 /\ direction = Decrement
  /\ current_volume = 6

\* C9: whatever byte is written to the offsets 0-5, and whatever else runs, the decoded
\* fields stay in range: current_volume and initial_volume in 0 .. 15, divider and
\* frequency_ratio in 0 .. 7, frequency_shift in 0 .. 15, width 0 or 1, and a length
\* written through offset 0 in 1 .. 64.
C9_FieldRanges ==
  /\ current_volume \in 0 .. 15
  /\ initial_volume \in 0 .. 15
  /\ divider \in 0 .. 7
  /\ frequency_ratio \in 0 .. 7
  /\ frequency_shift \in 0 .. 15
  /\ width \in {0, 1}
  /\ (op.name = "Write" /\ op.offset = 0) => length \in 1 .. 64

C9_Witness ==
  /\ op.name = "Write" /\ op.offset = 1 /\ op.value = 255
  /\ op.entry.current_volume = 15 /\ op.entry.direction = Decrement /\ ~op.entry.active
  /\ current_volume = 15 /\ divider = 7 /\ initial_volume = 15

\* C10: Write(1, b) followed by Read(1) returns b, and Write(4, b) followed by Read(4)
\* returns b, for every byte b and every prior state; the value read at offset 1 is
\* made of divider, direction and initial_volume alone.
C10_ReadBack ==
  /\ (op.name = "Write" /\ op.offset = 1) => Read(1) = op.value
  /\ (op.name = "Write" /\ op.offset = 4) => Read(4) = op.value
  /\ Read(1) = divider + (8 * direction) + (16 * initial_volume)

C10_Witness ==
  /\ op.name = "Write" /\ op.offset = 1 /\ op.value = 165
  /\ Read(1) = 165
  /\ current_volume # initial_volume /\ active

\* C11: when the ring buffer holds at least as many frames as the host asks for, the
\* callback consumes exactly that many frames, oldest first, writes them converted as its
\* output frames, and peeks at nothing.
C11_DrainWhenEnough ==
  (aop.name = "AudioCallback" /\ aop.available >= aop.n) =>
    /\ aop.consumed = aop.n
    /\ aop.offsets = << >>
    /\ ring_count = aop.available - aop.n
    /\ aop.out = [x \in 1 .. aop.n |-> ConvertFrame(aop.frames[x])]

\* C12: when the ring buffer holds fewer frames than the host asks for (K < N, K = 0
\* included), the callback writes N output frames, output frame x being available frame
\* x mod K, peeks only at offsets inside the available range, and consumes nothing: the
\* read cursor and the available frames are what they were.
C12_Underrun ==
  (aop.name = "AudioCallback" /\ aop.available < aop.n) =>
    /\ Len(aop.out) = aop.n
    /\ aop.consumed = 0
    /\ AvailableFrames = aop.frames
    /\ \A x \in 1 .. Len(aop.offsets) : aop.offsets[x] < aop.available
    /\ \A x \in 1 .. aop.n :
         aop.out[x] = ConvertFrame(aop.frames[((x - 1) % aop.available) + 1])

\* C13: APU::Reset() drains or swaps the ring buffer, so a host callback that runs once
\* Reset has installed it reads no frame that was written before that Reset.
C13_ResetIsolatesCallback ==
  aop.name = "AudioCallback" => ~aop.stale

\* C14: every Tick writes one stereo frame, left = latch[0]/256 + S/512 and right =
\* latch[1]/256 + S/512, S being the sum of the samples of all the tone channels, the
\* noise channel included, and then adds 512 >> resolution to event.countdown; one tone
\* channel at +40, the others at 0 and both latches 0 give the frame (40/512, 40/512).
C14_TickFrame ==
  [][aop'.name = "Tick" =>
       LET S == psg[1] + psg[2] + psg[3] + sample
       IN /\ aop'.frame = << (2 * latch[0]) + S, (2 * latch[1]) + S >>
          /\ countdown' = countdown + (512 \div Pow2(resolution))
          /\ (S = 40 /\ latch[0] = 0 /\ latch[1] = 0) => aop'.frame = << 40, 40 >>]_vars

\* C15: a Tick reconfigures the resampler to 32768 << resolution exactly when the
\* resolution differs from the one the previous Tick, or Reset, saw; it does so before it
\* writes its frame, which the resampler takes at the new rate; after every Tick
\* resolution_old is the current resolution. Between two operations resolution_old is the
\* resolution the resampler is set for.
C15_Reconfigure ==
  [][/\ aop'.name = "Tick" =>
          /\ aop'.reconfigured <=> (resolution # resolution_old)
          /\ resampler_rate' = (IF resolution # resolution_old THEN resolution
                                ELSE resampler_rate)
          /\ resampler_rate' = resolution
          /\ resolution_old' = resolution
          /\ aop'.pushed <=> (/\ resampler_phase + 1 >= Pow2(resolution)
                              /\ ring_count < MaxRing)
     /\ reset_pc' = "idle" => resolution_old' = resampler_rate']_vars

C15_Witness ==
  /\ aop.name = "Tick" /\ aop.reconfigured /\ ~aop.pushed
  /\ resolution = 3 /\ resolution_old = 3 /\ resampler_rate = 3
  /\ resampler_phase = 1

\* C16: LatchFIFO(id, times) reads FIFO id exactly `times` times, oldest byte first,
\* and leaves latch[id] at the last byte read; after each read it raises a request to the
\* DMA exactly when FIFO id then holds 16 bytes or fewer, with occasion FIFO0 for id 0
\* and FIFO1 for id 1; the other FIFO, the other latch and the other occasion stay as
\* they were.
C16_LatchFIFO ==
  [][aop'.name = "LatchFIFO" =>
       LET id == aop'.id
           times == aop'.times
           other == 1 - id
           count == Len(fifo[id])
           popped == IF times < count THEN times ELSE count
           mine == IF id = 0 THEN "FIFO0" ELSE "FIFO1"
           theirs == IF id = 0 THEN "FIFO1" ELSE "FIFO0"
           low == {k \in 1 .. times : count - k <= 16}
       IN /\ Len(aop'.reads) = times
          /\ \A k \in 1 .. popped : aop'.reads[k] = fifo[id][k]
          /\ fifo'[id] = SubSeq(fifo[id], popped + 1, count)
          /\ latch'[id] = aop'.reads[times]
          /\ Len(aop'.requests) = Cardinality(low)
          /\ \A k \in 1 .. Len(aop'.requests) : aop'.requests[k] = mine
          /\ dma' = (IF low = {} THEN dma ELSE dma \cup {mine})
          /\ fifo'[other] = fifo[other]
          /\ latch'[other] = latch[other]
          /\ (theirs \in dma') <=> (theirs \in dma)]_vars

C16_Witness ==
  /\ aop.name = "LatchFIFO" /\ aop.id = 1 /\ aop.times = 2
  /\ aop.reads = << -9, -8 >>
  /\ aop.requests = << "FIFO1" >>
  /\ Len(fifo[1]) = 16 /\ latch[1] = -8
  /\ dma = {"FIFO1"}

\* C17: the refill request is edge-triggered: a call of LatchFIFO raises a request only
\* with the read that takes FIFO id from more than 16 bytes to 16 or fewer; reads that
\* find it at 16 bytes or fewer raise none (stated for calls that find a byte to read).
C17_EdgeTriggered ==
  [][(aop'.name = "LatchFIFO" /\ Len(fifo[aop'.id]) >= aop'.times) =>
       LET count == Len(fifo[aop'.id])
           crossing == count > 16 /\ count - aop'.times <= 16
       IN Len(aop'.requests) = (IF crossing THEN 1 ELSE 0)]_vars

\* C18: whatever Reset, register writes and firings of Generate ran, enabled implies
\* dac_enable: enabled only turns true in a trigger write (offset 5, bit 7) made while
\* dac_enable is true, and a write to offset 1 that leaves the DAC off leaves enabled false.
C18_EnabledNeedsDac ==
  [][/\ enabled' => dac_enable'
     /\ (~enabled /\ enabled') =>
          (op'.name = "Write" /\ op'.offset = 5 /\ op'.value >= 128 /\ dac_enable)
     /\ (op'.name = "Write" /\ op'.offset = 1 /\ ~dac_enable') => ~enabled']_vars

C18_Witness ==
  /\ op.name = "Write" /\ op.offset = 1 /\ op.value = 0
  /\ op.entry.enabled /\ op.entry.dac_enable
  /\ ~enabled /\ ~dac_enable

\* C19: enabled gates the output: after a firing of Generate that leaves enabled false
\* (never triggered, DAC switched off, or silenced by length expiry), sample is 0.
C19_EnabledGatesOutput ==
  (op.name = "Generate" /\ ~enabled) => sample = 0

\* C20 as claimed: once the channel has been triggered (lfsr is zero only from Reset to
\* the first trigger), lfsr is nonzero and below 0x8000 after every firing of Generate,
\* whatever was written to offset 4 in between.
C20_LfsrNeverStuck ==
  [][(op'.name = "Generate" /\ lfsr \in 1 .. 32767) => lfsr' \in 1 .. 32767]_vars

\* C20 as amended: a trigger leaves lfsr nonzero and within its mode's range (0x7FFF, or
\* 0x7F in 7-bit mode), a write to offset 4 leaves lfsr alone, and every firing of
\* Generate, for every skip_count, keeps a nonzero lfsr below 0x8000; it keeps it nonzero
\* and within the mode's range when it found it within the mode's range, that is as long
\* as width was not switched from 15-bit to 7-bit since the trigger.
C20_LfsrAliveInMode ==
  [][/\ (op'.name = "Write" /\ op'.offset = 5 /\ op'.value >= 128) =>
          (lfsr' >= 1 /\ lfsr' <= (IF width' = 1 THEN 127 ELSE 32767))
     /\ (op'.name = "Write" /\ op'.offset = 4) => lfsr' = lfsr
     /\ (op'.name = "Generate" /\ lfsr \in 1 .. 32767) =>
          /\ lfsr' < 32768
          /\ (width = 0 \/ lfsr <= 127) =>
               (lfsr' >= 1 /\ lfsr' <= (IF width = 1 THEN 127 ELSE 32767))]_vars

C20_Witness ==
  /\ op.name = "Generate" /\ ~op.expired
  /\ op.entry.skip_count = 63 /\ op.entry.lfsr = 1088
  /\ width = 0
  /\ lfsr = 12352

====
